---- MODULE Spec2Model ----
(***************************************************************************)
(* Model of examples/python/agent_wallet_integration.py: the               *)
(* AgentWalletClient HTTP wrapper, format_balance, and the example         *)
(* functions that drive the client, run against the agent-wallet service   *)
(* the client talks to.  The service is the TypeScript part of the         *)
(* repository; it is modelled from the interface tables of the             *)
(* specification (sections 4.1, 6, 7, 8).                                  *)
(*                                                                         *)
(* Strings that the code builds or parses digit by digit (decimal amounts, *)
(* formatted balances) are sequences of one-character strings.             *)
(***************************************************************************)
EXTENDS Integers, Sequences, FiniteSets, TLC

\* ------------------------------------------------------------- bounds
MaxAmount == 12           \* the largest amount a caller passes directly
MaxFmtBalance == 130      \* format_balance is applied to 0..MaxFmtBalance
MaxDecimals == 3          \* ... and to decimals 0..MaxDecimals

\* ------------------------------------------------- program constants
HTTP_NOT_FOUND == 404
HTTP_CONFLICT == 409
HTTP_RATE_LIMIT == 429
HTTP_SERVER_ERROR == 500
EX3_AMOUNT == 1000000000
EX3_PAYMENT == 10000000
EX3_PAYMENTS == 10
EX3_DECIMALS == 6

AgentIds == {"agent-001", "agent-example-001"}
\* Channel ids a caller may name; the service hands out the first only.
ChannelIdSeq == <<"ch-1", "ch-2">>
ChannelIds == {ChannelIdSeq[i] : i \in 1..Len(ChannelIdSeq)}
OpenAmounts == {0, 5, MaxAmount}
PayAmounts == {5, MaxAmount}

\* ------------------------------------------------ Python str / int
DigitChars == <<"0", "1", "2", "3", "4", "5", "6", "7", "8", "9">>

\* A str() that keeps the leading digit only, as a float of one significant
\* digit would.
RECURSIVE py_str_lossy(_)
py_str_lossy(n) ==
    IF n < 10 THEN <<DigitChars[n + 1]>>
    ELSE py_str_lossy(n \div 10) \o <<"0">>

\* str(n) for an int n >= 0: its decimal digits, most significant first.
RECURSIVE py_str(_)
py_str(n) ==
    IF n < 10 THEN <<DigitChars[n + 1]>>
    ELSE py_str(n \div 10) \o <<DigitChars[(n % 10) + 1]>>

DigitValue(c) == CHOOSE d \in 0..9 : DigitChars[d + 1] = c

\* int(s) for a string of decimal digits.
RECURSIVE py_int(_)
py_int(s) ==
    IF Len(s) = 0 THEN 0
    ELSE 10 * py_int(SubSeq(s, 1, Len(s) - 1)) + DigitValue(s[Len(s)])

\* A zfill that pads nothing.
zfill_none(s, width) == s

\* s.zfill(width): zeros on the left up to width; never truncates.
RECURSIVE zfill(_, _)
zfill(s, width) == IF Len(s) >= width THEN s ELSE zfill(<<"0">> \o s, width)

RECURSIVE Pow10(_)
Pow10(k) == IF k = 0 THEN 1 ELSE 10 * Pow10(k - 1)

format_balance(balance, decimals) ==
    LET divisor == Pow10(decimals)
        whole == balance \div divisor
        fraction == balance % divisor
    IN py_str(whole) \o <<".">> \o zfill(py_str(fraction), decimals)

\* ------------------------------------------------------------ state
VARIABLES
    wallets,     \* service: agent id -> "absent" | "pending" | "active"
    balances,    \* service: agent id -> USDC balance on the evm chain
    channels,    \* service: channel id -> channel record (status "none": not opened)
    ledger,      \* per channel, what the caller has seen acknowledged since it opened
    call,        \* the last AgentWalletClient method call and its outcome
    session,     \* the requests.Session of the running example's client
    pc,          \* position of the running example function
    frame,       \* its arguments and local variables
    fmt          \* input and output of format_balance

vars == <<wallets, balances, channels, ledger, call, session, pc, frame, fmt>>

\* ------------------------------------------------- the wallet service
\* Amounts cross the wire as decimal strings: the service's own writer and
\* reader of them.
RECURSIVE DecimalString(_)
DecimalString(n) ==
    IF n < 10 THEN <<DigitChars[n + 1]>>
    ELSE DecimalString(n \div 10) \o <<DigitChars[(n % 10) + 1]>>

RECURSIVE ParseDecimal(_)
ParseDecimal(s) ==
    IF Len(s) = 0 THEN 0
    ELSE 10 * ParseDecimal(SubSeq(s, 1, Len(s) - 1)) + DigitValue(s[Len(s)])

Other(a) == CHOOSE b \in AgentIds : b # a

EvmAddress(a) == IF a = "agent-001" THEN "0xA001" ELSE "0xE001"
XrpAddress(a) == IF a = "agent-001" THEN "rA001" ELSE "rE001"
DerivationIndex(a) == IF a = "agent-001" THEN 0 ELSE 1

WalletJson(a, status) ==
    [agentId |-> a, evmAddress |-> EvmAddress(a), xrpAddress |-> XrpAddress(a),
     derivationIndex |-> DerivationIndex(a), createdAt |-> "2026-01-01T00:00:00Z",
     status |-> status]

BalanceJson(a, S) ==
    [agentId |-> a, chain |-> "evm", token |-> "USDC",
     balance |-> DecimalString(S.balances[a]), decimals |-> EX3_DECIMALS,
     lastUpdated |-> "2026-01-01T00:00:00Z"]

NoChannel ==
    [agentId |-> "", peerId |-> "", chain |-> "", token |-> "", balance |-> 0,
     initialAmount |-> 0, paymentsCount |-> 0, status |-> "none"]

ChannelJson(c, S) ==
    LET ch == S.channels[c] IN
    [id |-> c, agentId |-> ch.agentId, peerId |-> ch.peerId, chain |-> ch.chain,
     token |-> ch.token, balance |-> DecimalString(ch.balance),
     initialAmount |-> DecimalString(ch.initialAmount),
     paymentsCount |-> ch.paymentsCount, status |-> ch.status]

\* The channels of agent a, in channel-id order.
RECURSIVE ChannelList(_, _, _)
ChannelList(a, S, i) ==
    IF i > Len(ChannelIdSeq) THEN <<>>
    ELSE LET c == ChannelIdSeq[i] IN
         (IF c \in ChannelIds /\ S.channels[c].status # "none" /\ S.channels[c].agentId = a
          THEN <<ChannelJson(c, S)>> ELSE <<>>) \o ChannelList(a, S, i + 1)

Reply(S, status, body) == [S |-> S, status |-> status, body |-> body]
Fail(S, status, message) == Reply(S, status, [error |-> message])

FreeChannels(S) == {i \in {1} : S.channels[ChannelIdSeq[i]].status = "none"}
NextChannelId(S) == ChannelIdSeq[CHOOSE i \in FreeChannels(S) : \A j \in FreeChannels(S) : i <= j]

PostWallet(a, S) ==
    IF S.wallets[a] # "absent" THEN Fail(S, HTTP_CONFLICT, "wallet already exists")
    ELSE Reply([S EXCEPT !.wallets[a] = "pending"], 201, WalletJson(a, "pending"))

GetWallet(a, S) ==
    IF a \notin AgentIds \/ S.wallets[a] = "absent" THEN Fail(S, HTTP_NOT_FOUND, "wallet not found")
    ELSE Reply(S, 200, WalletJson(a, S.wallets[a]))

GetBalances(a, S) ==
    IF a \notin AgentIds \/ S.wallets[a] = "absent" THEN Fail(S, HTTP_NOT_FOUND, "wallet not found")
    ELSE Reply(S, 200, [balances |-> <<BalanceJson(a, S)>>])

GetOneBalance(a, chain, token, S) ==
    IF a \notin AgentIds \/ S.wallets[a] = "absent" \/ chain # "evm" \/ token # "USDC"
    THEN Fail(S, HTTP_NOT_FOUND, "balance not found")
    ELSE Reply(S, 200, [balance |-> DecimalString(S.balances[a])])

PostChannel(json, S) ==
    IF S.wallets[json.agentId] = "absent" THEN Fail(S, HTTP_NOT_FOUND, "wallet not found")
    ELSE LET c == NextChannelId(S)
             amount == ParseDecimal(json.amount)
         IN Reply([S EXCEPT !.channels[c] =
                      [agentId |-> json.agentId, peerId |-> json.peerId,
                       chain |-> json.chain, token |-> json.token, balance |-> amount,
                       initialAmount |-> amount, paymentsCount |-> 0, status |-> "open"]],
                  201, [channelId |-> c])

PostPayment(c, json, S) ==
    IF c \notin ChannelIds \/ S.channels[c].status = "none" THEN Fail(S, HTTP_NOT_FOUND, "channel not found")
    ELSE IF S.channels[c].status = "closed" THEN Fail(S, HTTP_CONFLICT, "channel closed")
    ELSE IF ParseDecimal(json.amount) > S.channels[c].balance THEN Fail(S, 400, "insufficient funds")
    ELSE Reply([S EXCEPT !.channels[c].balance = @ - ParseDecimal(json.amount),
                         !.channels[c].paymentsCount = @ + 1],
               200, [ok |-> TRUE])

DeleteChannel(c, S) ==
    IF c \notin ChannelIds \/ S.channels[c].status = "none" THEN Fail(S, HTTP_NOT_FOUND, "channel not found")
    ELSE IF S.channels[c].status = "closed" THEN Fail(S, HTTP_CONFLICT, "channel closed")
    ELSE Reply([S EXCEPT !.channels[c].status = "closed"], 200, [ok |-> TRUE])

GetChannels(a, S) ==
    IF a \notin AgentIds \/ S.wallets[a] = "absent" THEN Fail(S, HTTP_NOT_FOUND, "wallet not found")
    ELSE Reply(S, 200, [channels |-> ChannelList(a, S, 1)])

\* Routing of a request by method and path (section 6 of the specification).
ServerHandle(req, S) ==
    LET p == req.path IN
    CASE req.method = "POST" /\ p = <<"wallets">> -> PostWallet(req.json.agentId, S)
      [] req.method = "GET" /\ Len(p) = 2 /\ p[1] = "wallets" -> GetWallet(p[2], S)
      [] req.method = "GET" /\ Len(p) = 3 /\ p[1] = "wallets" /\ p[3] = "balances" -> GetBalances(p[2], S)
      [] req.method = "GET" /\ Len(p) = 5 /\ p[1] = "wallets" /\ p[3] = "balances" -> GetOneBalance(p[2], p[4], p[5], S)
      [] req.method = "POST" /\ p = <<"channels">> -> PostChannel(req.json, S)
      [] req.method = "POST" /\ Len(p) = 3 /\ p[1] = "channels" /\ p[3] = "payments" -> PostPayment(p[2], req.json, S)
      [] req.method = "DELETE" /\ Len(p) = 2 /\ p[1] = "channels" -> DeleteChannel(p[2], S)
      [] req.method = "GET" /\ Len(p) = 3 /\ p[1] = "wallets" /\ p[3] = "channels" -> GetChannels(p[2], S)
      [] OTHER -> Fail(S, HTTP_NOT_FOUND, "no such route")

\* ------------------------------------------------------- the transport
\* What one HTTP exchange can come to: the service answers; the request
\* times out before it reaches the service or after the service has acted;
\* the connection fails; a rate limiter or a faulty service answers instead.
TransportOutcomes ==
    {"delivered", "connect_timeout", "read_timeout", "connection_error",
     "rate_limited", "server_fault", "seed_fault"}

Response(status, body) == [kind |-> "response", status |-> status, body |-> body]
NoResponse(kind) == [kind |-> kind, status |-> 0, body |-> [error |-> ""]]

\* The service state after the exchange, and what requests hands the client.
Transmit(req, t, S) ==
    LET r == ServerHandle(req, S) IN
    CASE t = "delivered" -> [S |-> r.S, resp |-> Response(r.status, r.body)]
      [] t = "read_timeout" -> [S |-> r.S, resp |-> NoResponse("Timeout")]
      [] t = "connect_timeout" -> [S |-> S, resp |-> NoResponse("Timeout")]
      [] t = "connection_error" -> [S |-> S, resp |-> NoResponse("ConnectionError")]
      [] t = "rate_limited" ->
            [S |-> S, resp |-> Response(HTTP_RATE_LIMIT, [error |-> "rate limit exceeded"])]
      [] t = "server_fault" ->
            [S |-> S, resp |-> Response(HTTP_SERVER_ERROR, [error |-> "internal error"])]
      [] t = "seed_fault" ->
            [S |-> S, resp |-> Response(HTTP_SERVER_ERROR, [error |-> "master-seed not found"])]

\* ------------------------------------------------- AgentWalletClient
API_TIMEOUT == 30

NoWallet ==
    [agent_id |-> "", evm_address |-> "", xrp_address |-> "", derivation_index |-> 0,
     created_at |-> "", status |-> ""]

\* The outcome of a method call: what it returned, or what it raised.
\*   kind: "None" | "AgentWallet" | "int" | "str" | "list"      (returned)
\*         "HTTPError" | "Timeout" | "ConnectionError"          (raised)
NoOutcome ==
    [kind |-> "none", status |-> 0, error |-> "", wallet |-> NoWallet, num |-> 0,
     text |-> "", list |-> <<>>]

ReturnNone == [NoOutcome EXCEPT !.kind = "None"]
ReturnWallet(w) == [NoOutcome EXCEPT !.kind = "AgentWallet", !.wallet = w]
ReturnInt(n) == [NoOutcome EXCEPT !.kind = "int", !.num = n]
ReturnStr(x) == [NoOutcome EXCEPT !.kind = "str", !.text = x]
ReturnList(l) == [NoOutcome EXCEPT !.kind = "list", !.list = l]
\* requests.HTTPError carries the response (e.response).
RaiseHTTPError(resp) ==
    [NoOutcome EXCEPT !.kind = "HTTPError", !.status = resp.status, !.error = resp.body.error]
\* requests.Timeout / requests.ConnectionError leave session.request itself.
RaiseTransport(resp) == [NoOutcome EXCEPT !.kind = resp.kind]

\* response.raise_for_status() raises for a 4xx or 5xx status.
raise_for_status(status) == status >= 400 /\ status < 600

AgentWallet(data) ==
    [agent_id |-> data.agentId, evm_address |-> data.evmAddress,
     xrp_address |-> data.xrpAddress, derivation_index |-> data.derivationIndex,
     created_at |-> data.createdAt, status |-> data.status]

AgentBalance(b) ==
    [agent_id |-> b.agentId, chain |-> b.chain, token |-> b.token,
     balance |-> py_int(b.balance), decimals |-> b.decimals,
     last_updated |-> b.lastUpdated]

\* An AgentChannel whose balance is read from initialAmount.
AgentChannel_swapped(c) ==
    [id |-> c.id, agent_id |-> c.agentId, peer_id |-> c.peerId, chain |-> c.chain,
     token |-> c.token, balance |-> py_int(c.initialAmount),
     initial_amount |-> py_int(c.initialAmount), payments_count |-> c.paymentsCount,
     status |-> c.status]

AgentChannel(c) ==
    [id |-> c.id, agent_id |-> c.agentId, peer_id |-> c.peerId, chain |-> c.chain,
     token |-> c.token, balance |-> py_int(c.balance),
     initial_amount |-> py_int(c.initialAmount), payments_count |-> c.paymentsCount,
     status |-> c.status]

Request(method, path, json) ==
    [method |-> method, path |-> path, json |-> json, timeout |-> API_TIMEOUT]
NoJson == [none |-> TRUE]

create_wallet_request(agent_id) == Request("POST", <<"wallets">>, [agentId |-> agent_id])
\* A create_wallet that answers a 409 the way get_wallet answers a 404.
create_wallet_conflict_as_none(resp) ==
    IF resp.kind # "response" THEN RaiseTransport(resp)
    ELSE IF resp.status = HTTP_CONFLICT THEN ReturnNone
    ELSE IF raise_for_status(resp.status) THEN RaiseHTTPError(resp)
    ELSE ReturnWallet(AgentWallet(resp.body))

create_wallet(resp) ==
    IF resp.kind # "response" THEN RaiseTransport(resp)
    ELSE IF raise_for_status(resp.status) THEN RaiseHTTPError(resp)
    ELSE ReturnWallet(AgentWallet(resp.body))

get_wallet_request(agent_id) == Request("GET", <<"wallets", agent_id>>, NoJson)
\* A get_wallet without the 404 test.
get_wallet_no404(resp) ==
    IF resp.kind # "response" THEN RaiseTransport(resp)
    ELSE IF raise_for_status(resp.status) THEN RaiseHTTPError(resp)
    ELSE ReturnWallet(AgentWallet(resp.body))

get_wallet(resp) ==
    IF resp.kind # "response" THEN RaiseTransport(resp)
    ELSE IF resp.status = HTTP_NOT_FOUND THEN ReturnNone
    ELSE IF raise_for_status(resp.status) THEN RaiseHTTPError(resp)
    ELSE ReturnWallet(AgentWallet(resp.body))

get_all_balances_request(agent_id) == Request("GET", <<"wallets", agent_id, "balances">>, NoJson)
get_all_balances(resp) ==
    IF resp.kind # "response" THEN RaiseTransport(resp)
    ELSE IF raise_for_status(resp.status) THEN RaiseHTTPError(resp)
    ELSE ReturnList([i \in 1..Len(resp.body.balances) |-> AgentBalance(resp.body.balances[i])])

get_balance_request(agent_id, chain, token) ==
    Request("GET", <<"wallets", agent_id, "balances", chain, token>>, NoJson)
get_balance(resp) ==
    IF resp.kind # "response" THEN RaiseTransport(resp)
    ELSE IF raise_for_status(resp.status) THEN RaiseHTTPError(resp)
    ELSE ReturnInt(py_int(resp.body.balance))

open_channel_request(agent_id, peer_id, chain, token, amount) ==
    Request("POST", <<"channels">>,
            [agentId |-> agent_id, peerId |-> peer_id, chain |-> chain, token |-> token,
             amount |-> py_str(amount)])
open_channel(resp) ==
    IF resp.kind # "response" THEN RaiseTransport(resp)
    ELSE IF raise_for_status(resp.status) THEN RaiseHTTPError(resp)
    ELSE ReturnStr(resp.body.channelId)

send_payment_request(agent_id, channel_id, amount) ==
    Request("POST", <<"channels", channel_id, "payments">>,
            [agentId |-> agent_id, amount |-> py_str(amount)])
\* A send_payment that does not call raise_for_status.
send_payment_unchecked(resp) ==
    IF resp.kind # "response" THEN RaiseTransport(resp)
    ELSE ReturnNone

send_payment(resp) ==
    IF resp.kind # "response" THEN RaiseTransport(resp)
    ELSE IF raise_for_status(resp.status) THEN RaiseHTTPError(resp)
    ELSE ReturnNone

close_channel_request(agent_id, channel_id) ==
    Request("DELETE", <<"channels", channel_id>>, [agentId |-> agent_id])
close_channel(resp) ==
    IF resp.kind # "response" THEN RaiseTransport(resp)
    ELSE IF raise_for_status(resp.status) THEN RaiseHTTPError(resp)
    ELSE ReturnNone

get_agent_channels_request(agent_id) == Request("GET", <<"wallets", agent_id, "channels">>, NoJson)
get_agent_channels(resp) ==
    IF resp.kind # "response" THEN RaiseTransport(resp)
    ELSE IF raise_for_status(resp.status) THEN RaiseHTTPError(resp)
    ELSE ReturnList([i \in 1..Len(resp.body.channels) |-> AgentChannel(resp.body.channels[i])])

Ops ==
    {"create_wallet", "get_wallet", "get_all_balances", "get_balance", "open_channel",
     "send_payment", "close_channel", "get_agent_channels"}

RequestOf(op, agent, channel, amount) ==
    CASE op = "create_wallet" -> create_wallet_request(agent)
      [] op = "get_wallet" -> get_wallet_request(agent)
      [] op = "get_all_balances" -> get_all_balances_request(agent)
      [] op = "get_balance" -> get_balance_request(agent, "evm", "USDC")
      [] op = "open_channel" -> open_channel_request(agent, Other(agent), "evm", "USDC", amount)
      [] op = "send_payment" -> send_payment_request(agent, channel, amount)
      [] op = "close_channel" -> close_channel_request(agent, channel)
      [] op = "get_agent_channels" -> get_agent_channels_request(agent)

OutcomeOf(op, resp) ==
    CASE op = "create_wallet" -> create_wallet(resp)
      [] op = "get_wallet" -> get_wallet(resp)
      [] op = "get_all_balances" -> get_all_balances(resp)
      [] op = "get_balance" -> get_balance(resp)
      [] op = "open_channel" -> open_channel(resp)
      [] op = "send_payment" -> send_payment(resp)
      [] op = "close_channel" -> close_channel(resp)
      [] op = "get_agent_channels" -> get_agent_channels(resp)

\* The requests a method puts on the wire for one call: session.get / post /
\* delete is called once, and nothing is sent again whatever comes back.
\* A sender that tries once more after a 5xx answer.
session_send_retry(req, resp) ==
    IF resp.kind = "response" /\ resp.status >= HTTP_SERVER_ERROR THEN <<req, req>> ELSE <<req>>

session_send(req, resp) == <<req>>

NoCall ==
    [op |-> "none", agent |-> "", channel |-> "", amount |-> 0, transport |-> "",
     request |-> Request("", <<>>, NoJson), wire |-> <<>>, resp |-> NoResponse("none"),
     pre |-> [wallet |-> "absent", channel |-> NoChannel],
     out |-> NoOutcome]

\* ------------------------------------------------------ method calls
ServiceState == [wallets |-> wallets, balances |-> balances, channels |-> channels]

NoLedger == [amount |-> 0, sum |-> 0, n |-> 0, sure |-> TRUE]

\* Bookkeeping of what the caller has been told about each channel.
LedgerAfter(op, channel, amount, S, T, out) ==
    [c \in ChannelIds |->
        IF op = "open_channel" /\ S.channels[c].status = "none" /\ T.channels[c].status = "open"
        THEN [amount |-> amount, sum |-> 0, n |-> 0, sure |-> TRUE]
        ELSE IF op = "send_payment" /\ c = channel /\ out.kind = "None" /\ ledger[c].sure
        THEN [ledger[c] EXCEPT !.sum = @ + amount, !.n = @ + 1]
        ELSE IF op = "send_payment" /\ c = channel /\ out.kind = "Timeout"
        THEN [NoLedger EXCEPT !.sure = FALSE]
        ELSE ledger[c]]

\* One call of a client method: the request is built, exchanged once with
\* the service, and the response turned into a return value or an exception.
Invoke(op, agent, channel, amount) ==
    LET req == RequestOf(op, agent, channel, amount)
        S == ServiceState
    IN \E t \in TransportOutcomes :
         LET x == Transmit(req, t, S)
             out == OutcomeOf(op, x.resp)
         IN /\ wallets' = x.S.wallets
            /\ balances' = x.S.balances
            /\ channels' = x.S.channels
            /\ ledger' = LedgerAfter(op, channel, amount, S, x.S, out)
            /\ call' = [op |-> op, agent |-> agent, channel |-> channel, amount |-> amount,
                        transport |-> t, request |-> req,
                        wire |-> session_send(req, x.resp), resp |-> x.resp,
                        pre |-> [wallet |-> S.wallets[agent], channel |-> S.channels[channel]],
                        out |-> out]

AnyChannel == ChannelIdSeq[1]

\* No example is running and the last call's outcome has been taken.
Idle == pc = "idle" /\ call.op = "none"
Caller == UNCHANGED <<session, pc, frame, fmt>>

CallCreateWallet == Idle /\ Caller /\ \E a \in AgentIds : Invoke("create_wallet", a, AnyChannel, 0)
CallGetWallet == Idle /\ Caller /\ \E a \in AgentIds : Invoke("get_wallet", a, AnyChannel, 0)
CallGetAllBalances == Idle /\ Caller /\ \E a \in AgentIds : Invoke("get_all_balances", a, AnyChannel, 0)
CallGetBalance == Idle /\ Caller /\ \E a \in AgentIds : Invoke("get_balance", a, AnyChannel, 0)
CallOpenChannel ==
    /\ Idle /\ Caller
    /\ FreeChannels(ServiceState) # {}
    /\ \E a \in AgentIds, amount \in OpenAmounts : Invoke("open_channel", a, AnyChannel, amount)
CallSendPayment ==
    /\ Idle /\ Caller
    /\ \E a \in AgentIds, c \in ChannelIds, amount \in PayAmounts :
          Invoke("send_payment", a, c, amount)
CallCloseChannel ==
    Idle /\ Caller /\ \E a \in AgentIds, c \in ChannelIds : Invoke("close_channel", a, c, 0)
CallGetAgentChannels ==
    Idle /\ Caller /\ \E a \in AgentIds : Invoke("get_agent_channels", a, AnyChannel, 0)

\* The caller takes the outcome of the call; the next call can follow.
Return ==
    /\ pc = "idle" /\ call.op # "none"
    /\ call' = NoCall
    /\ UNCHANGED <<wallets, balances, channels, ledger, session, pc, frame, fmt>>

\* ---------------------------------------- the service's own activity
\* `call` describes the call just made, until the service moves on.
Service == call' = NoCall /\ UNCHANGED <<channels, ledger, session, pc, frame, fmt>>

\* A wallet is removed on the service: an operator archives it, or the
\* service comes back without its state.
Remove == \E a \in AgentIds :
    /\ wallets[a] # "absent"
    /\ wallets' = [wallets EXCEPT ![a] = "absent"]
    /\ balances' = [balances EXCEPT ![a] = 0]
    /\ Service

\* A pending wallet becomes active and is funded (status and balance change
\* on the service only).
Activate == \E a \in AgentIds :
    /\ wallets[a] = "pending"
    /\ wallets' = [wallets EXCEPT ![a] = "active"]
    /\ balances' = [balances EXCEPT ![a] = EX3_AMOUNT]
    /\ Service

\* ------------------------------------------------ example functions
NoAgentChannel ==
    [id |-> "", agent_id |-> "", peer_id |-> "", chain |-> "", token |-> "", balance |-> 0,
     initial_amount |-> 0, payments_count |-> 0, status |-> ""]

\* Arguments, locals and exit of the running example.
\*   wallet_is / channel_is / ret: "unset" | "None" | "AgentWallet" | "AgentChannel"
\*   exit: "" (running) | "returned" | "raised";  err: the exception class raised
NoFrame ==
    [fn |-> "none", agent_id |-> "", peer_id |-> "", wallet_is |-> "unset",
     wallet |-> NoWallet, channel_id |-> "", i |-> 0, channel_is |-> "unset",
     channel |-> NoAgentChannel, shown |-> <<>>, exit |-> "", ret |-> "unset", err |-> ""]

Frame(fn, agent_id, peer_id) ==
    [NoFrame EXCEPT !.fn = fn, !.agent_id = agent_id, !.peer_id = peer_id]

\* `except requests.HTTPError`: the clause takes HTTPError only; Timeout and
\* ConnectionError are its siblings under RequestException and pass through.
\* `except requests.RequestException`: takes Timeout and ConnectionError too.
except_RequestException(kind) == kind \in {"HTTPError", "Timeout", "ConnectionError"}

except_HTTPError(kind) == kind = "HTTPError"

Returned(f, ret) == [f EXCEPT !.exit = "returned", !.ret = ret]
Raised(f, err) == [f EXCEPT !.exit = "raised", !.err = err]

\* client = AgentWalletClient(): __init__ opens a requests.Session.
AgentWalletClient_init == session' = "open"

\* example_1_create_wallet up to its first wait: create_wallet, then the
\* first test of the polling loop.
Ex1Create ==
    /\ Idle
    /\ AgentWalletClient_init
    /\ Invoke("create_wallet", "agent-001", AnyChannel, 0)
    /\ LET out == call'.out
           f == Frame("example_1", "agent-001", "")
       IN IF out.kind = "AgentWallet"
          THEN LET g == [f EXCEPT !.wallet_is = "AgentWallet", !.wallet = out.wallet] IN
               IF out.wallet.status = "pending"
               THEN pc' = "ex1_poll" /\ frame' = g
               ELSE pc' = "exit" /\ frame' = Returned(g, "AgentWallet")
          ELSE pc' = "exit" /\ frame' = Raised(f, out.kind)
    /\ UNCHANGED fmt

\* One round of the loop: sleep, get_wallet, test `wallet.status == "pending"`.
Ex1Poll ==
    /\ pc = "ex1_poll"
    /\ Invoke("get_wallet", frame.wallet.agent_id, AnyChannel, 0)
    /\ LET out == call'.out IN
       IF out.kind = "AgentWallet"
       THEN LET g == [frame EXCEPT !.wallet = out.wallet] IN
            IF out.wallet.status = "pending"
            THEN pc' = "ex1_poll" /\ frame' = g
            ELSE pc' = "exit" /\ frame' = Returned(g, "AgentWallet")
       ELSE IF out.kind = "None"
       THEN \* wallet is None: `wallet.status` raises AttributeError, which
            \* `except requests.HTTPError` does not take.
            /\ pc' = "exit"
            /\ frame' = Raised([frame EXCEPT !.wallet_is = "None", !.wallet = NoWallet],
                               "AttributeError")
       ELSE pc' = "exit" /\ frame' = Raised(frame, out.kind)
    /\ UNCHANGED <<session, fmt>>

\* example_3_payment_channel: open the channel.
Ex3Open ==
    /\ Idle
    /\ FreeChannels(ServiceState) # {}
    /\ AgentWalletClient_init
    /\ \E a \in AgentIds :
          /\ Invoke("open_channel", a, AnyChannel, EX3_AMOUNT)
          /\ LET out == call'.out
                 f == Frame("example_3", a, Other(a))
             IN IF out.kind = "str"
                THEN pc' = "ex3_pay" /\ frame' = [f EXCEPT !.channel_id = out.text, !.i = 1]
                ELSE pc' = "exit" /\ frame' = Raised(f, out.kind)
    /\ UNCHANGED fmt

\* for i in range(1, 11): send_payment(...)
Ex3Pay ==
    /\ pc = "ex3_pay"
    /\ Invoke("send_payment", frame.agent_id, frame.channel_id, EX3_PAYMENT)
    /\ LET out == call'.out IN
       IF out.kind = "None"
       THEN IF frame.i = EX3_PAYMENTS
            THEN pc' = "ex3_get" /\ frame' = frame
            ELSE pc' = "ex3_pay" /\ frame' = [frame EXCEPT !.i = @ + 1]
       ELSE pc' = "exit" /\ frame' = Raised(frame, out.kind)
    /\ UNCHANGED <<session, fmt>>

\* next((c for c in channels if c.id == channel_id), None)
RECURSIVE next_channel(_, _, _)
next_channel(list, channel_id, i) ==
    IF i > Len(list) THEN [is |-> "None", channel |-> NoAgentChannel]
    ELSE IF list[i].id = channel_id THEN [is |-> "AgentChannel", channel |-> list[i]]
    ELSE next_channel(list, channel_id, i + 1)

\* channels = get_agent_channels(agent_id); look the channel up and print it.
Ex3Get ==
    /\ pc = "ex3_get"
    /\ Invoke("get_agent_channels", frame.agent_id, AnyChannel, 0)
    /\ LET out == call'.out IN
       IF out.kind = "list"
       THEN LET found == next_channel(out.list, frame.channel_id, 1) IN
            /\ pc' = "ex3_close"
            /\ frame' = [frame EXCEPT !.channel_is = found.is, !.channel = found.channel,
                             !.shown = IF found.is = "AgentChannel"
                                       THEN format_balance(found.channel.balance, EX3_DECIMALS)
                                       ELSE <<>>]
       ELSE pc' = "exit" /\ frame' = Raised(frame, out.kind)
    /\ UNCHANGED <<session, fmt>>

Ex3Close ==
    /\ pc = "ex3_close"
    /\ Invoke("close_channel", frame.agent_id, frame.channel_id, 0)
    /\ LET out == call'.out IN
       /\ pc' = "exit"
       /\ frame' = IF out.kind = "None" THEN Returned(frame, "None") ELSE Raised(frame, out.kind)
    /\ UNCHANGED <<session, fmt>>

\* example_4_error_handling: create_wallet and the branches of its handler.
Ex4Create ==
    /\ Idle
    /\ AgentWalletClient_init
    /\ \E a \in AgentIds :
          /\ Invoke("create_wallet", a, AnyChannel, 0)
          /\ LET out == call'.out
                 f == Frame("example_4", a, "")
             IN IF out.kind = "AgentWallet"
                THEN /\ pc' = "exit"
                     /\ frame' = Returned([f EXCEPT !.wallet_is = "AgentWallet",
                                                    !.wallet = out.wallet], "AgentWallet")
                ELSE IF ~except_HTTPError(out.kind)
                THEN pc' = "exit" /\ frame' = Raised(f, out.kind)
                ELSE IF out.status = HTTP_CONFLICT
                THEN pc' = "ex4_get" /\ frame' = f
                ELSE IF out.status = HTTP_RATE_LIMIT
                THEN pc' = "exit" /\ frame' = Raised(f, "HTTPError")
                ELSE IF out.status = HTTP_SERVER_ERROR
                THEN /\ pc' = "exit"
                     /\ frame' = Raised(f, IF out.error = "master-seed not found"
                                           THEN "Exception" ELSE "HTTPError")
                ELSE pc' = "exit" /\ frame' = Raised(f, "HTTPError")
    /\ UNCHANGED fmt

\* return client.get_wallet(agent_id), inside the 409 branch of the handler.
Ex4Get ==
    /\ pc = "ex4_get"
    /\ Invoke("get_wallet", frame.agent_id, AnyChannel, 0)
    /\ LET out == call'.out IN
       /\ pc' = "exit"
       /\ frame' = IF out.kind = "AgentWallet"
                   THEN Returned([frame EXCEPT !.wallet_is = "AgentWallet",
                                               !.wallet = out.wallet], "AgentWallet")
                   ELSE IF out.kind = "None" THEN Returned(frame, "None")
                   ELSE Raised(frame, out.kind)
    /\ UNCHANGED <<session, fmt>>

\* The example has returned or raised; its frame, and with it the only
\* reference to the client, is dropped.  Nothing calls session.close().
ExExit ==
    /\ pc = "exit"
    /\ pc' = "idle"
    /\ frame' = NoFrame
    /\ session' = "none"
    /\ call' = NoCall
    /\ UNCHANGED <<wallets, balances, channels, ledger, fmt>>

\* ---------------------------------------------------- format_balance
FmtBalances == (0..MaxFmtBalance) \cup {EX3_PAYMENT, EX3_AMOUNT}
FmtDecimals == (0..MaxDecimals) \cup {EX3_DECIMALS}
NoFmt == [balance |-> 0, decimals |-> 0, out |-> <<>>, done |-> FALSE]

FormatBalance ==
    /\ ~fmt.done
    /\ fmt' = [fmt EXCEPT !.out = format_balance(fmt.balance, fmt.decimals), !.done = TRUE]
    /\ UNCHANGED <<wallets, balances, channels, ledger, call, session, pc, frame>>

\* ------------------------------------------------------ specifications
Init ==
    /\ wallets = [a \in AgentIds |-> "absent"]
    /\ balances = [a \in AgentIds |-> 0]
    /\ channels = [c \in ChannelIds |-> NoChannel]
    /\ ledger = [c \in ChannelIds |-> NoLedger]
    /\ call = NoCall
    /\ session = "none"
    /\ pc = "idle"
    /\ frame = NoFrame
    /\ fmt = [NoFmt EXCEPT !.done = TRUE]

Next ==
    \/ CallCreateWallet
    \/ CallGetWallet
    \/ CallGetAllBalances
    \/ CallGetBalance
    \/ CallOpenChannel
    \/ CallSendPayment
    \/ CallCloseChannel
    \/ CallGetAgentChannels
    \/ Return
    \/ Activate
    \/ Remove

Spec == Init /\ [][Next]_vars

\* The example functions, run one after another against a service that may
\* already hold wallets.
InitEx ==
    /\ wallets \in [AgentIds -> {"absent", "pending", "active"}]
    /\ balances = [a \in AgentIds |-> IF wallets[a] = "active" THEN EX3_AMOUNT ELSE 0]
    /\ channels = [c \in ChannelIds |-> NoChannel]
    /\ ledger = [c \in ChannelIds |-> NoLedger]
    /\ call = NoCall
    /\ session = "none"
    /\ pc = "idle"
    /\ frame = NoFrame
    /\ fmt = [NoFmt EXCEPT !.done = TRUE]

NextEx ==
    \/ Activate
    \/ Remove
    \/ Ex1Create
    \/ Ex1Poll
    \/ Ex3Open
    \/ Ex3Pay
    \/ Ex3Get
    \/ Ex3Close
    \/ Ex4Create
    \/ Ex4Get
    \/ ExExit

SpecEx == InitEx /\ [][NextEx]_vars

InitFmt ==
    /\ wallets = [a \in AgentIds |-> "absent"]
    /\ balances = [a \in AgentIds |-> 0]
    /\ channels = [c \in ChannelIds |-> NoChannel]
    /\ ledger = [c \in ChannelIds |-> NoLedger]
    /\ call = NoCall
    /\ session = "none"
    /\ pc = "idle"
    /\ frame = NoFrame
    /\ \E b \in FmtBalances, d \in FmtDecimals : fmt = [NoFmt EXCEPT !.balance = b, !.decimals = d]

NextFmt == FormatBalance

SpecFmt == InitFmt /\ [][NextFmt]_vars

\* ------------------------------------------------------------ claims
Called(op) == call.op = op
Answered == call.resp.kind = "response"
Success == Answered /\ call.resp.status \in 200..299
TimedOut == call.transport \in {"connect_timeout", "read_timeout"}

\* The value a string of decimal digits denotes, by positional weight.
RECURSIVE WeightedSum(_, _)
WeightedSum(s, i) ==
    IF i > Len(s) THEN 0
    ELSE DigitValue(s[i]) * Pow10(Len(s) - i) + WeightedSum(s, i + 1)

IsDigits(s) == \A i \in 1..Len(s) : \E d \in 0..9 : s[i] = DigitChars[d + 1]
\* s is the decimal numeral of n: digits only, no leading zero, value n.
IsDecimalOf(s, n) ==
    /\ Len(s) >= 1 /\ IsDigits(s)
    /\ (Len(s) > 1 => s[1] # "0")
    /\ WeightedSum(s, 1) = n

\* C1: get_wallet returns None exactly when the service answers 404,
\* returns the wallet decoded from the body on a success answer, and raises
\* HTTPError (never returns) on every other failure status; a wallet that
\* was never created comes back as None, not as an error.
C1_GetWallet404IsAbsence ==
    Called("get_wallet") =>
        /\ (call.out.kind = "None") <=> (Answered /\ call.resp.status = HTTP_NOT_FOUND)
        /\ Success =>
              /\ call.out.kind = "AgentWallet"
              /\ call.out.wallet.agent_id = call.agent
              /\ call.out.wallet.evm_address = EvmAddress(call.agent)
              /\ call.out.wallet.xrp_address = XrpAddress(call.agent)
              /\ call.out.wallet.derivation_index = DerivationIndex(call.agent)
              /\ call.out.wallet.status = wallets[call.agent]
        /\ (Answered /\ ~Success /\ call.resp.status # HTTP_NOT_FOUND) =>
              /\ call.out.kind = "HTTPError"
              /\ call.out.status = call.resp.status
        /\ (call.transport = "delivered" /\ call.pre.wallet = "absent") => call.out.kind = "None"

C1_Witness ==
    /\ Called("get_wallet") /\ call.transport = "delivered"
    /\ call.pre.wallet = "absent" /\ call.resp.status = HTTP_NOT_FOUND
    /\ call.out.kind = "None"

\* C2: create_wallet for an agent that already has a wallet never returns a
\* wallet; when the service answers, the call raises HTTPError with status
\* 409, and no other failure of create_wallet carries that status.
C2_SecondCreateConflicts ==
    Called("create_wallet") =>
        /\ call.pre.wallet # "absent" =>
              /\ call.out.kind # "AgentWallet"
              /\ call.transport = "delivered" =>
                    (call.out.kind = "HTTPError" /\ call.out.status = HTTP_CONFLICT)
        /\ (call.out.kind = "HTTPError" /\ call.out.status = HTTP_CONFLICT) =>
              call.pre.wallet # "absent"

C2_Witness ==
    /\ Called("create_wallet") /\ call.transport = "delivered"
    /\ call.pre.wallet = "pending"
    /\ call.out.kind = "HTTPError" /\ call.out.status = HTTP_CONFLICT

\* C3: every call of every client method puts exactly one request on the
\* wire, the one the method builds, whatever comes back; and every failure
\* (no response, or a 4xx/5xx answer other than get_wallet's 404) leaves the
\* method as an exception.
C3_OneRequestPerCall ==
    call.op # "none" =>
        /\ Len(call.wire) = 1
        /\ call.wire[1] = call.request
        /\ ~Answered => call.out.kind = call.resp.kind
        /\ (Answered /\ call.resp.status >= 400
              /\ ~(Called("get_wallet") /\ call.resp.status = HTTP_NOT_FOUND)) =>
              call.out.kind = "HTTPError"

C3_Witness ==
    /\ Called("send_payment") /\ call.transport = "server_fault"
    /\ Len(call.wire) = 1 /\ call.out.kind = "HTTPError"

\* C5: a request that times out leaves the method as Timeout, which is
\* neither a return value nor an HTTPError and which a handler for
\* HTTPError does not take; HTTPError is raised only for an answer with a
\* failure status, and a handler for HTTPError takes it.
C5_TimeoutIsNotHTTPError ==
    call.op # "none" =>
        /\ TimedOut =>
              /\ call.out.kind = "Timeout"
              /\ ~except_HTTPError(call.out.kind)
        /\ call.out.kind = "HTTPError" =>
              /\ Answered /\ call.resp.status >= 400
              /\ except_HTTPError(call.out.kind)
        /\ except_HTTPError(call.out.kind) => Answered

C5_Witness ==
    /\ Called("send_payment") /\ call.transport = "read_timeout"
    /\ call.pre.channel.status = "open"
    /\ channels[call.channel].balance < call.pre.channel.balance
    /\ call.out.kind = "Timeout"

\* C6: open_channel and send_payment put the amount on the wire as its
\* decimal numeral, and reading that numeral back gives the amount; the
\* amounts that get_balance, get_all_balances and get_agent_channels return
\* are the integers the service holds.
C6_AmountsRoundTrip ==
    /\ (Called("open_channel") \/ Called("send_payment")) =>
          /\ IsDecimalOf(call.request.json.amount, call.amount)
          /\ py_int(call.request.json.amount) = call.amount
    /\ (Called("open_channel") /\ call.out.kind = "str") =>
          channels[call.out.text].initialAmount = call.amount
    /\ (Called("get_balance") /\ call.out.kind = "int") =>
          /\ call.out.num = balances[call.agent]
          /\ py_int(py_str(call.out.num)) = call.out.num
    /\ (Called("get_all_balances") /\ call.out.kind = "list") =>
          \A i \in 1..Len(call.out.list) :
              call.out.list[i].balance = balances[call.out.list[i].agent_id]
    /\ (Called("get_agent_channels") /\ call.out.kind = "list") =>
          \A i \in 1..Len(call.out.list) :
              /\ call.out.list[i].balance = channels[call.out.list[i].id].balance
              /\ call.out.list[i].initial_amount = channels[call.out.list[i].id].initialAmount

C6_Witness ==
    /\ Called("get_agent_channels") /\ call.out.kind = "list"
    /\ Len(call.out.list) = 1
    /\ call.out.list[1].initial_amount = MaxAmount
    /\ call.out.list[1].balance = MaxAmount - 5

\* C9: send_payment of more than the open channel holds never returns the
\* acknowledgement and leaves balance and payments count as they were; when
\* the service answers, the call raises HTTPError carrying the service's
\* "insufficient funds".
C9_OverdraftRejected ==
    (Called("send_payment") /\ call.pre.channel.status = "open"
        /\ call.amount > call.pre.channel.balance) =>
        /\ call.out.kind # "None"
        /\ channels[call.channel].balance = call.pre.channel.balance
        /\ channels[call.channel].paymentsCount = call.pre.channel.paymentsCount
        /\ call.transport = "delivered" =>
              (call.out.kind = "HTTPError" /\ call.out.error = "insufficient funds")

C9_Witness ==
    /\ Called("send_payment") /\ call.transport = "delivered"
    /\ call.pre.channel.status = "open"
    /\ call.pre.channel.balance = MaxAmount - 5 /\ call.amount = MaxAmount
    /\ call.out.kind = "HTTPError" /\ call.out.error = "insufficient funds"
    /\ channels[call.channel].balance = MaxAmount - 5

\* C4: when an example function has returned or raised, the session its
\* client opened has been closed.
C4_SessionClosedOnExit == pc = "exit" => session = "closed"

\* C8: the channel that get_agent_channels returns carries the opening
\* amount less the payments acknowledged, and their count; example_3's
\* channel stands at 1000000000 - (i - 1) * 10000000 before its i-th
\* payment and is read back with balance 900000000 and payments_count 10;
\* no send_payment raises a channel's balance.
C8_ChannelAccounting ==
    /\ (Called("get_agent_channels") /\ call.out.kind = "list") =>
          \A i \in 1..Len(call.out.list) :
              LET ch == call.out.list[i]
                  l == ledger[ch.id]
              IN l.sure =>
                    /\ ch.initial_amount = l.amount
                    /\ ch.balance = l.amount - l.sum
                    /\ ch.payments_count = l.n
    /\ pc = "ex3_pay" =>
          /\ channels[frame.channel_id].balance = 1000000000 - (frame.i - 1) * 10000000
          /\ channels[frame.channel_id].paymentsCount = frame.i - 1
    /\ pc = "ex3_close" =>
          /\ frame.channel_is = "AgentChannel"
          /\ frame.channel.id = frame.channel_id
          /\ frame.channel.balance = 900000000
          /\ frame.channel.payments_count = 10
    /\ Called("send_payment") =>
          channels[call.channel].balance <= call.pre.channel.balance

C8_Witness ==
    /\ pc = "ex3_close"
    /\ frame.channel_is = "AgentChannel"
    /\ frame.channel.balance = 900000000
    /\ frame.channel.payments_count = 10
    /\ ledger[frame.channel_id].n = 10

\* C10: example_1 never returns a pending wallet, and when its polling
\* get_wallet was answered with a wallet or with 404 it does not fail with
\* anything but an HTTPError.
C10_PollingFailsOnlyWithHTTPError ==
    frame.fn = "example_1" =>
        /\ frame.exit = "returned" => frame.wallet.status # "pending"
        /\ (frame.exit = "raised" /\ Called("get_wallet") /\ Answered
              /\ call.resp.status \in {200, HTTP_NOT_FOUND}) => frame.err = "HTTPError"

\* C7 as stated: for every balance >= 0 and decimals >= 0 the result is the
\* numeral of balance div 10^decimals, a point, and exactly `decimals`
\* digits denoting balance mod 10^decimals.
PointAt(s) == CHOOSE i \in 1..Len(s) : s[i] = "."
WholePart(s) == SubSeq(s, 1, PointAt(s) - 1)
FractionPart(s) == SubSeq(s, PointAt(s) + 1, Len(s))

FormatShape(width) ==
    /\ Cardinality({i \in 1..Len(fmt.out) : fmt.out[i] = "."}) = 1
    /\ IsDecimalOf(WholePart(fmt.out), fmt.balance \div Pow10(fmt.decimals))
    /\ IsDigits(FractionPart(fmt.out))
    /\ Len(FractionPart(fmt.out)) = width
    /\ WeightedSum(FractionPart(fmt.out), 1) = fmt.balance % Pow10(fmt.decimals)
    /\ (fmt.balance = 1000000000 /\ fmt.decimals = 6) =>
          fmt.out = <<"1", "0", "0", "0", ".", "0", "0", "0", "0", "0", "0">>
    /\ (fmt.balance = 10000000 /\ fmt.decimals = 6) =>
          fmt.out = <<"1", "0", ".", "0", "0", "0", "0", "0", "0">>

C7_ExactlyDecimalsDigits == fmt.done => FormatShape(fmt.decimals)

\* C7 amended: the fractional part has exactly `decimals` digits when
\* decimals >= 1, and is the single digit 0 when decimals = 0.
C7_FormatBalance == fmt.done => FormatShape(IF fmt.decimals = 0 THEN 1 ELSE fmt.decimals)

C7_Witness ==
    /\ fmt.done /\ fmt.balance = 105 /\ fmt.decimals = 3
    /\ fmt.out = <<"0", ".", "1", "0", "5">>

====
